---------------------------- MODULE Spec2Model ----------------------------
(***************************************************************************)
(* Model of the hoax-detection ingestion pipeline: the storage upsert      *)
(* (database.py), the retry decorator (scrapers.py), the fact-check        *)
(* matcher (fact_checker.py) and the orchestrator's extract_claim_keywords,*)
(* run_job and start (social_media_agent.py).                              *)
(*                                                                         *)
(* Python's None is the string "None" in string-valued fields, NoScore in  *)
(* prediction_score, and the empty sequence where a dict or None is        *)
(* returned (<<r>> is the returned dict r).                                *)
(***************************************************************************)
EXTENDS Integers, Sequences, FiniteSets, TLC

VARIABLES
    \* ---- database.py: Database ----
    storage,      \* the committed rows of table "posts", in insertion order
    now,          \* the clock read by dt.datetime.utcnow()
    dbLast,       \* the last insert_posts call: its batch, outcome and the storage before it
    ingested,     \* history: per url, the first and the last record committed for it
    \* ---- scrapers.py: retry_request ----
    max_retries,  \* the decorator's max_retries
    delay,        \* the decorator's delay, in seconds
    retries,      \* the wrapper's local counter
    rPc,          \* "loop": in the while loop; "returned": the wrapper has returned
    rResult,      \* the value the wrapper returned
    rLog,         \* history: "call", "raise", "ok", "sleep" in the order they happened
    \* ---- fact_checker.py: FactChecker.search_claim ----
    fcIn,         \* one call: the api key, the HTTP outcome, the claims of the response,
                  \* token_set_ratio for this query, and similarity_threshold
    fcPc,         \* "call": not run yet; "returned"; "raised"
    fcOut,        \* the returned value: <<>> for None, <<match>> for the dict
    \* ---- social_media_agent.py: Scheduler ----
    sched,        \* what __init__ built: which scrapers are not None, whether there is
                  \* a FactChecker and whether it has an api key
    pc,           \* where run_job is: "idle", "google", "twitter", "reddit", "classify",
                  \* "stats"; "crashed" when an exception left run_job
    posts,        \* run_job's list `posts`
    idx,          \* the post the loop of step 2 is at
    runs,         \* number of run_job calls so far
    fetched,      \* history: the fetch() calls of this run, in order: the scraper,
                  \* whether the call raised, and the list it returned
    fcCalls,      \* history: the search_claim calls of this run: post, query, response, result
    summary,      \* the counters of the last log line: <<total_hoax, fact_checked, not_found>>
    crash,        \* history: what raised the exception that left run_job, or "none"
    \* ---- social_media_agent.py: Scheduler.extract_claim_keywords ----
    exText,       \* the text of one call
    exPc,         \* "call": not run yet; "returned"
    exFound,      \* the returned string
    \* ---- scrapers.py, news_scraper.py, social_media_agent.py: a scraper's fetch ----
    ad,           \* the scraper: the module that defines it and its platform
    adKw,         \* the keyword the loop `for keyword in self.keywords` is at
    adTry,        \* `retries` of the retry_request wrapper for that keyword
    adOut,        \* the list `posts`: <<keyword, item>> for each record appended
    adPc,         \* "loop"; "returned"; "raised" when an exception left fetch
    adLog,        \* history: the calls, raises, sleeps and pauses, with their keyword
    \* ---- social_media_agent.py: Scheduler.__init__ ----
    conf          \* the arguments and the environment of the constructor: `sources`,
                  \* fact_check, the installed packages, the REDDIT_* and
                  \* FACT_CHECK_API_KEY variables
    ,
    \* ---- social_media_agent.py: Scheduler.start ----
    tick,         \* the time of day, in sleep increments after the scheduled time
    due,          \* the job of `schedule` is pending: its next_run has come
    stop,         \* a process-level stop signal has been raised
    \* ---- scrapers.py, social_media_agent.py: TwitterScraper.fetch ----
    tw,           \* the scraper on which fetch() runs
    max_tweets,   \* self.max_tweets
    twYield,      \* for each keyword, the number of tweets scraper.get_items() can yield
    twKw,         \* the position of the keyword loop
    twTaken,      \* for each keyword, the number of tweets taken from get_items()
    twOut,        \* the list `posts` of fetch()
    twPc,         \* "items", "returned" or "raised"
    \* ---- database.py: insert_posts called twice with one batch ----
    rep           \* the batch, the table after its first call, and "start", "once" or "again"

dbVars == <<storage, now, dbLast, ingested>>

retryVars == <<max_retries, delay, retries, rPc, rResult, rLog>>

matchVars == <<fcIn, fcPc, fcOut>>

runVars == <<sched, pc, posts, idx, runs, fetched, fcCalls, summary, crash>>

extractVars == <<exText, exPc, exFound>>

adVars == <<ad, adKw, adTry, adOut, adPc, adLog>>

buildVars == <<conf>>

clockVars == <<tick, due, stop>>

itemVars == <<tw, max_tweets, twYield, twKw, twTaken, twOut, twPc>>

repVars == <<rep>>

vars == <<dbVars, retryVars, matchVars, runVars, extractVars, adVars, buildVars, clockVars, itemVars, repVars>>

-----------------------------------------------------------------------------
(* Bounds of the model *)

\* longest batch handed to insert_posts
MaxBatch == 2
\* number of run_job calls Scheduler.start makes (the model stops there)
MaxRuns == 3
\* most words in a text handed to extract_claim_keywords
MaxWords == 3
\* number of keywords of a scraper
MaxKeywords == 2
\* number of sleep increments in a day
Day == 3
\* largest max_tweets_per_keyword of a TwitterScraper
MaxTweets == 2
\* largest number of tweets a search can yield
MaxYield == 3
\* most items a search returns for one keyword
MaxItems == 2
\* number of insert_posts calls (the clock stops the model there)
MaxBatches == 2
\* largest max_retries given to retry_request
MaxAttempts == 4
\* most claims in one fact-check response (the request asks for pageSize 10)
MaxClaims == 2
\* most posts the scrapers return in one run
MaxPosts == 2

-----------------------------------------------------------------------------
(* structures.py: Post *)

None == "None"

\* prediction_score: Optional[float] = None; scores are kept in hundredths
NoScore == -1

Urls == {"A", "B"}

\* what a source adapter sets: the capture fields
Captures ==
    { [platform |-> "google", keyword |-> "vaksin", content |-> "c1", created_at |-> 1, author |-> "au1"],
      [platform |-> "reddit", keyword |-> "pemilu", content |-> "c2", created_at |-> 2, author |-> None] }

\* what classification and fact checking set: the enrichment fields
Enrichments ==
    { [predicted_label |-> "hoax", prediction_score |-> 90,
       fact_check_url |-> "fc1", fact_check_rating |-> "False", fact_check_publisher |-> "pub1"],
      [predicted_label |-> "not_hoax", prediction_score |-> 70,
       fact_check_url |-> None, fact_check_rating |-> None, fact_check_publisher |-> None] }

Post(u, cap, enr) ==
    [platform |-> cap.platform, keyword |-> cap.keyword, content |-> cap.content,
     url |-> u, created_at |-> cap.created_at, author |-> cap.author,
     predicted_label |-> enr.predicted_label, prediction_score |-> enr.prediction_score,
     fact_check_url |-> enr.fact_check_url, fact_check_rating |-> enr.fact_check_rating,
     fact_check_publisher |-> enr.fact_check_publisher]

\* the records handed to insert_posts: url "A" is seen with either capture
DbPosts ==
    { Post(u, cap, enr) : u \in Urls, cap \in Captures, enr \in Enrichments }
        \ { p \in { Post("B", cap, enr) : cap \in Captures, enr \in Enrichments } : p.content = "c2" }

SeqsUpTo(S, n) == UNION { [1..k -> S] : k \in 0..n }

CaptureOf(p) ==
    [platform |-> p.platform, keyword |-> p.keyword, content |-> p.content,
     created_at |-> p.created_at, author |-> p.author]

EnrichmentOf(p) ==
    [predicted_label |-> p.predicted_label, prediction_score |-> p.prediction_score,
     fact_check_url |-> p.fact_check_url, fact_check_rating |-> p.fact_check_rating,
     fact_check_publisher |-> p.fact_check_publisher]

-----------------------------------------------------------------------------
(* database.py: Database.insert_posts *)

(* A session is what the open transaction sees: `rows` are the rows a      *)
(* SELECT in the transaction returns (committed rows and flushed changes), *)
(* `new` are the objects given to session.add() and not flushed yet.       *)
OpenSession(committed) == [rows |-> committed, new |-> <<>>]

\* sessionmaker(bind=engine) leaves autoflush on: no pending object survives a query
NoAutoflush(s) == s

Autoflush(s) == [rows |-> s.rows \o s.new, new |-> <<>>]

\* the index of the first row with this url among the rows a SELECT sees, or 0
FirstByUrl(rows, u) ==
    IF \E i \in 1..Len(rows) : rows[i].url = u
    THEN CHOOSE i \in 1..Len(rows) :
            /\ rows[i].url = u
            /\ \A j \in 1..(i - 1) : rows[j].url # u
    ELSE 0

\* docstring of insert_posts: "Existing rows with the same URL will be ignored"
IgnoreExisting(row, post) == row

\* an update of the classification only
UpdateLabelOnly(row, post) ==
    [row EXCEPT !.predicted_label = post.predicted_label,
                !.prediction_score = post.prediction_score]

\* the branch `if exists:` overwrites the five enrichment fields of the row
UpdateExisting(row, post) ==
    [row EXCEPT !.predicted_label = post.predicted_label,
                !.prediction_score = post.prediction_score,
                !.fact_check_url = post.fact_check_url,
                !.fact_check_rating = post.fact_check_rating,
                !.fact_check_publisher = post.fact_check_publisher]

\* a new row that is given its enrichment fields only by a later update
NewRowCaptureOnly(post, t) ==
    [platform |-> post.platform, keyword |-> post.keyword, content |-> post.content,
     url |-> post.url, created_at |-> post.created_at, author |-> post.author,
     predicted_label |-> None, prediction_score |-> NoScore,
     fact_check_url |-> None, fact_check_rating |-> None,
     fact_check_publisher |-> None, inserted_at |-> t]

\* PostModel(...) built from the post, with inserted_at = utcnow()
NewRow(post, t) ==
    [platform |-> post.platform, keyword |-> post.keyword, content |-> post.content,
     url |-> post.url, created_at |-> post.created_at, author |-> post.author,
     predicted_label |-> post.predicted_label, prediction_score |-> post.prediction_score,
     fact_check_url |-> post.fact_check_url, fact_check_rating |-> post.fact_check_rating,
     fact_check_publisher |-> post.fact_check_publisher, inserted_at |-> t]

\* an upsert that replaces the row found by a new one
ProcessPostReplaces(s, post, t) ==
    LET q == Autoflush(s)
        Others(row) == row.url # post.url
    IN  [q EXCEPT !.rows = SelectSeq(q.rows, Others), !.new = Append(q.new, NewRow(post, t))]

\* one iteration of `for post in posts`
ProcessPost(s, post, t) ==
    LET q == Autoflush(s)
        i == FirstByUrl(q.rows, post.url)
    IN  IF i # 0
        THEN [q EXCEPT !.rows[i] = UpdateExisting(q.rows[i], post)]
        ELSE [q EXCEPT !.new = Append(q.new, NewRow(post, t))]

RECURSIVE ProcessPosts(_, _, _)
ProcessPosts(s, batch, t) ==
    IF batch = <<>> THEN s
    ELSE ProcessPosts(ProcessPost(s, Head(batch), t), Tail(batch), t)

\* session.commit(): flush what is pending and make the transaction's rows the table
Commit(committed, s) == s.rows \o s.new

\* a rollback that keeps what the transaction had flushed
RollbackKeepsFlushed(committed, s) == s.rows

\* session.rollback(): the table is what it was when the session was opened
Rollback(committed, s) == committed

(* insert_posts(batch) on the table `committed` at time t.  failAt = 0: no *)
(* statement raises; failAt = k in 1..Len(batch): the k-th iteration       *)
(* raises after the k-1 before it ran; failAt = Len(posts)+1: commit()     *)
(* raises.  The result is the table after the call.                        *)
InsertPostsResult(committed, batch, failAt, t) ==
    LET done == IF failAt = 0 THEN Len(batch) ELSE failAt - 1
        s    == ProcessPosts(OpenSession(committed), SubSeq(batch, 1, done), t)
    IN  IF failAt = 0 THEN Commit(committed, s) ELSE Rollback(committed, s)

\* history of the records committed for each url (not part of the program):
\* the first and the last record committed for it, and the calls that did
RECURSIVE Record(_, _, _)
Record(h, batch, call) ==
    IF batch = <<>> THEN h
    ELSE LET p == Head(batch)
             e == IF h[p.url] = <<>>
                  THEN <<[first |-> p, last |-> p, firstBatch |-> call, lastBatch |-> call]>>
                  ELSE <<[h[p.url][1] EXCEPT !.last = p, !.lastBatch = call]>>
         IN  Record([h EXCEPT ![p.url] = e], Tail(batch), call)

\* whether the statements run before the failure had changed what the transaction sees
Dirty(committed, batch, failAt, t) ==
    /\ failAt > 0
    /\ LET s == ProcessPosts(OpenSession(committed), SubSeq(batch, 1, failAt - 1), t)
       IN  s.rows \o s.new # committed

\* the effect of one insert_posts(batch) call on the table and on the histories
DoInsertPosts(batch, failAt) ==
    /\ storage' = InsertPostsResult(storage, batch, failAt, now)
    /\ dbLast' = [len |-> Len(batch), failAt |-> failAt, before |-> storage,
                  urls |-> { batch[i].url : i \in 1..Len(batch) },
                  dirty |-> Dirty(storage, batch, failAt, now)]
    /\ ingested' = IF failAt = 0 THEN Record(ingested, batch, now) ELSE ingested
    /\ now' = now + 1

InsertPosts ==
    /\ now < MaxBatches
    /\ \E batch \in SeqsUpTo(DbPosts, MaxBatch) :
       \E failAt \in 0..(Len(batch) + 1) : DoInsertPosts(batch, failAt)
    /\ UNCHANGED <<retryVars, matchVars, runVars, extractVars, adVars, buildVars, clockVars, itemVars, repVars>>

\* the tables of rows inserted at time 0, with at most one row for a url
DbTables ==
    LET Rows == { NewRow(post, 0) : post \in DbPosts }
    IN  { t \in SeqsUpTo(Rows, Cardinality(Urls)) :
            \A i, j \in 1..Len(t) : t[i].url = t[j].url => i = j }

\* insert_posts(batch) commits on some table
InsertOnce ==
    /\ rep.pc = "start"
    /\ \E batch \in SeqsUpTo(DbPosts, MaxBatch) :
          /\ DoInsertPosts(batch, 0)
          /\ rep' = [pc |-> "once", batch |-> batch, once |-> storage']
    /\ UNCHANGED <<retryVars, matchVars, runVars, extractVars, adVars, buildVars, clockVars, itemVars>>

\* insert_posts is called with the same batch right after
InsertAgain ==
    /\ rep.pc = "once"
    /\ \E failAt \in 0..(Len(rep.batch) + 1) : DoInsertPosts(rep.batch, failAt)
    /\ rep' = [rep EXCEPT !.pc = "again"]
    /\ UNCHANGED <<retryVars, matchVars, runVars, extractVars, adVars, buildVars, clockVars, itemVars>>

\* the first of the two calls finds any table
RepInit ==
    /\ storage \in DbTables
    /\ now = 1
    /\ dbLast = [len |-> 0, failAt |-> 0, before |-> <<>>, urls |-> {}, dirty |-> FALSE]
    /\ ingested = [u \in Urls |-> <<>>]
    /\ rep = [pc |-> "start", batch |-> <<>>, once |-> <<>>]

\* no such pair of calls is made
RepIdle == rep = [pc |-> "again", batch |-> <<>>, once |-> <<>>]

RepNext == InsertOnce \/ InsertAgain

DbInit ==
    /\ storage = <<>>
    /\ now = 0
    /\ dbLast = [len |-> 0, failAt |-> 0, before |-> <<>>, urls |-> {}, dirty |-> FALSE]
    /\ ingested = [u \in Urls |-> <<>>]

-----------------------------------------------------------------------------
(* scrapers.py: retry_request *)

\* what the wrapped function can return: _fetch_*_keyword return None, a fetch a list
RetValues == {"None", "[]", "[p1]", "[p1, p2]"}

\* the delays the decorator is given in scrapers.py, and its default
Delays == {2, 5}

Count(log, e) == Cardinality({ i \in 1..Len(log) : log[i] = e })

\* a loop condition that lets one more attempt through
WhileUpTo(n, max) == n <= max

\* `while retries < max_retries`
WhileRetries(n, max) == n < max

\* a wrapper that makes a list of whatever the call returned
RetryCallReturnsList ==
    /\ rPc = "loop"
    /\ WhileRetries(retries, max_retries)
    /\ \E v \in RetValues :
          /\ rResult' = IF v = "None" THEN "[]" ELSE v
          /\ rLog' = rLog \o <<"call", "ok", v>>
    /\ rPc' = "returned"
    /\ UNCHANGED <<max_retries, delay, retries>>
    /\ UNCHANGED <<dbVars, matchVars, runVars, extractVars, adVars, buildVars, clockVars, itemVars, repVars>>

\* `return func(*args, **kwargs)`: the call returns the value v and so does
\* the wrapper
RetryCallReturns ==
    /\ rPc = "loop"
    /\ WhileRetries(retries, max_retries)
    /\ \E v \in RetValues :
          /\ rResult' = v
          /\ rLog' = rLog \o <<"call", "ok", v>>
    /\ rPc' = "returned"
    /\ UNCHANGED <<max_retries, delay, retries>>
    /\ UNCHANGED <<dbVars, matchVars, runVars, extractVars, adVars, buildVars, clockVars, itemVars, repVars>>

\* the call raises an Exception: count it, log it, sleep `delay`, loop
RetryCallRaises ==
    /\ rPc = "loop"
    /\ WhileRetries(retries, max_retries)
    /\ retries' = retries + 1
    /\ rLog' = rLog \o <<"call", "raise", "sleep">>
    /\ UNCHANGED <<max_retries, delay, rPc, rResult>>
    /\ UNCHANGED <<dbVars, matchVars, runVars, extractVars, adVars, buildVars, clockVars, itemVars, repVars>>

\* the loop is left: `return []`
RetryGivesUp ==
    /\ rPc = "loop"
    /\ ~WhileRetries(retries, max_retries)
    /\ rResult' = "[]"
    /\ rPc' = "returned"
    /\ UNCHANGED <<max_retries, delay, retries, rLog>>
    /\ UNCHANGED <<dbVars, matchVars, runVars, extractVars, adVars, buildVars, clockVars, itemVars, repVars>>

\* the wrapper is entered: retries = 0
RetryStart(n, d) ==
    /\ max_retries = n
    /\ delay = d
    /\ retries = 0
    /\ rPc = "loop"
    /\ rResult = "None"
    /\ rLog = <<>>

RetryInit == \E n \in 1..MaxAttempts : \E d \in Delays : RetryStart(n, d)

\* the decorator is not in use
RetryIdle ==
    /\ max_retries = 3
    /\ delay = 2
    /\ retries = 0
    /\ rPc = "returned"
    /\ rResult = "None"
    /\ rLog = <<>>

RetryNext == RetryCallReturns \/ RetryCallRaises \/ RetryGivesUp

-----------------------------------------------------------------------------
(* The scrapers' fetch: scrapers.py (all three), news_scraper.py (google),  *)
(* social_media_agent.py (twitter, reddit)                                 *)

\* the six scraper classes of the repository
Adapters ==
    { [module |-> "scrapers", platform |-> p] : p \in {"twitter", "reddit", "google"} }
    \cup { [module |-> "agent", platform |-> p] : p \in {"twitter", "reddit"} }
    \cup { [module |-> "news", platform |-> "google"] }

\* @retry_request(max_retries=3, ...) on _fetch_reddit_keyword and _fetch_google_keyword
AdapterMaxRetries == 3

\* the per-keyword fetch is a method decorated with retry_request
Retried(a) == a.module = "scrapers" /\ a.platform \in {"reddit", "google"}

\* only news_scraper.py has the try/except
CatchesInNews(a) == a.module = "news"

\* the per-keyword fetch stands in a try/except Exception of the keyword loop
Catches(a) == a.module = "scrapers" \/ a.module = "news"

\* random_sleep(...) at the end of each iteration of the keyword loop
Pauses(a) == a.module = "scrapers"

\* the records are appended while the items are read from the network (tweets,
\* submissions), so a failure can come after some of them; get_news returns
\* the whole list before the first append
AppendsWhileReading(a) == a.platform \in {"twitter", "reddit"}

\* the records of items 1..n of keyword k
RECURSIVE ItemsOf(_, _)
ItemsOf(k, n) == IF n = 0 THEN <<>> ELSE Append(ItemsOf(k, n - 1), <<k, n>>)

\* an entry of the history: n is the number of records the call appended
Event(e, k, n) == [e |-> e, kw |-> k, n |-> n]

\* the end of an iteration of the keyword loop
EndOfKeyword(a, k) == IF Pauses(a) THEN <<Event("pause", k, 0)>> ELSE <<>>

\* the per-keyword fetch returns: its m records are in the list
AdKeywordOk ==
    /\ adPc = "loop"
    /\ adKw <= MaxKeywords
    /\ Retried(ad) => WhileRetries(adTry, AdapterMaxRetries)
    /\ \E m \in 0..MaxItems :
          /\ adOut' = adOut \o ItemsOf(adKw, m)
          /\ adLog' = adLog \o <<Event("call", adKw, 0), Event("ok", adKw, m)>>
                            \o EndOfKeyword(ad, adKw)
    /\ adKw' = adKw + 1
    /\ adTry' = 0
    /\ UNCHANGED <<ad, adPc>>
    /\ UNCHANGED <<dbVars, retryVars, matchVars, runVars, extractVars, buildVars, clockVars, itemVars, repVars>>

\* the per-keyword fetch raises after n records were appended: the wrapper
\* counts, sleeps and loops; or the except of the keyword loop logs it; or the
\* exception leaves fetch
AdKeywordRaises ==
    /\ adPc = "loop"
    /\ adKw <= MaxKeywords
    /\ Retried(ad) => WhileRetries(adTry, AdapterMaxRetries)
    /\ \E n \in 0..(IF AppendsWhileReading(ad) THEN MaxItems ELSE 0) :
          LET raised == <<Event("call", adKw, 0), Event("raise", adKw, n)>>
          IN  /\ adOut' = adOut \o ItemsOf(adKw, n)
              /\ IF Retried(ad)
                 THEN /\ adTry' = adTry + 1
                      /\ adLog' = adLog \o raised \o <<Event("sleep", adKw, 0)>>
                      /\ UNCHANGED <<adKw, adPc>>
                 ELSE IF Catches(ad)
                 THEN /\ adLog' = adLog \o raised \o EndOfKeyword(ad, adKw)
                      /\ adKw' = adKw + 1
                      /\ UNCHANGED <<adTry, adPc>>
                 ELSE /\ adLog' = adLog \o raised
                      /\ adPc' = "raised"
                      /\ UNCHANGED <<adKw, adTry>>
    /\ UNCHANGED ad
    /\ UNCHANGED <<dbVars, retryVars, matchVars, runVars, extractVars, buildVars, clockVars, itemVars, repVars>>

\* the wrapper's loop is left: it returns [] and the keyword loop goes on
AdKeywordGivesUp ==
    /\ adPc = "loop"
    /\ adKw <= MaxKeywords
    /\ Retried(ad)
    /\ ~WhileRetries(adTry, AdapterMaxRetries)
    /\ adLog' = adLog \o <<Event("giveup", adKw, 0)>> \o EndOfKeyword(ad, adKw)
    /\ adKw' = adKw + 1
    /\ adTry' = 0
    /\ UNCHANGED <<ad, adOut, adPc>>
    /\ UNCHANGED <<dbVars, retryVars, matchVars, runVars, extractVars, buildVars, clockVars, itemVars, repVars>>

\* `return posts`
AdReturn ==
    /\ adPc = "loop"
    /\ adKw > MaxKeywords
    /\ adPc' = "returned"
    /\ UNCHANGED <<ad, adKw, adTry, adOut, adLog>>
    /\ UNCHANGED <<dbVars, retryVars, matchVars, runVars, extractVars, buildVars, clockVars, itemVars, repVars>>

AdStart(a) ==
    /\ ad = a
    /\ adKw = 1
    /\ adTry = 0
    /\ adOut = <<>>
    /\ adPc = "loop"
    /\ adLog = <<>>

\* fetch() is called on one of the scrapers
AdInit == \E a \in Adapters : AdStart(a)

\* no fetch is running
AdIdle ==
    /\ ad = [module |-> "scrapers", platform |-> "twitter"]
    /\ adKw = 1
    /\ adTry = 0
    /\ adOut = <<>>
    /\ adPc = "returned"
    /\ adLog = <<>>

AdNext == AdKeywordOk \/ AdKeywordRaises \/ AdKeywordGivesUp \/ AdReturn

-----------------------------------------------------------------------------
(* scrapers.py, social_media_agent.py: the tweets of TwitterScraper.fetch *)

\* the two TwitterScraper classes
TwitterAdapters == { a \in Adapters : a.platform = "twitter" }

\* the keyword loop moves on to the next keyword
TwNextKeyword ==
    /\ twKw' = twKw + 1
    /\ UNCHANGED <<tw, max_tweets, twYield, twPc>>

\* `for i, tweet in enumerate(scraper.get_items())`: the next tweet is taken
\* from the generator, then `if i >= self.max_tweets: break`, else the record
\* is appended
TwItem ==
    /\ twPc = "items"
    /\ twKw <= MaxKeywords
    /\ twTaken[twKw] < twYield[twKw]
    /\ LET i == twTaken[twKw]
       IN  /\ twTaken' = [twTaken EXCEPT ![twKw] = i + 1]
           /\ IF i >= max_tweets
              THEN /\ TwNextKeyword
                   /\ UNCHANGED twOut
              ELSE /\ twOut' = Append(twOut, <<twKw, i + 1>>)
                   /\ UNCHANGED <<tw, max_tweets, twYield, twKw, twPc>>
    /\ UNCHANGED <<dbVars, retryVars, matchVars, runVars, extractVars, adVars, buildVars, clockVars, repVars>>

\* the generator has no tweet left: the for loop ends
TwExhausted ==
    /\ twPc = "items"
    /\ twKw <= MaxKeywords
    /\ twTaken[twKw] = twYield[twKw]
    /\ TwNextKeyword
    /\ UNCHANGED <<twTaken, twOut>>
    /\ UNCHANGED <<dbVars, retryVars, matchVars, runVars, extractVars, adVars, buildVars, clockVars, repVars>>

\* taking the next tweet raises: the except of the keyword loop logs it
\* (scrapers.py), or the exception leaves fetch (social_media_agent.py)
TwItemRaises ==
    /\ twPc = "items"
    /\ twKw <= MaxKeywords
    /\ twTaken[twKw] < twYield[twKw]
    /\ IF Catches(tw)
       THEN TwNextKeyword
       ELSE twPc' = "raised" /\ UNCHANGED <<tw, max_tweets, twYield, twKw>>
    /\ UNCHANGED <<twTaken, twOut>>
    /\ UNCHANGED <<dbVars, retryVars, matchVars, runVars, extractVars, adVars, buildVars, clockVars, repVars>>

\* `return posts`
TwReturn ==
    /\ twPc = "items"
    /\ twKw > MaxKeywords
    /\ twPc' = "returned"
    /\ UNCHANGED <<tw, max_tweets, twYield, twKw, twTaken, twOut>>
    /\ UNCHANGED <<dbVars, retryVars, matchVars, runVars, extractVars, adVars, buildVars, clockVars, repVars>>

\* fetch() is called on a TwitterScraper with some max_tweets_per_keyword
TwInit ==
    /\ tw \in TwitterAdapters
    /\ max_tweets \in 0..MaxTweets
    /\ twYield \in [1..MaxKeywords -> 0..MaxYield]
    /\ twKw = 1
    /\ twTaken = [k \in 1..MaxKeywords |-> 0]
    /\ twOut = <<>>
    /\ twPc = "items"

\* no such fetch is running
TwIdle ==
    /\ tw = [module |-> "scrapers", platform |-> "twitter"]
    /\ max_tweets = 0
    /\ twYield = [k \in 1..MaxKeywords |-> 0]
    /\ twKw = 1
    /\ twTaken = [k \in 1..MaxKeywords |-> 0]
    /\ twOut = <<>>
    /\ twPc = "returned"

TwNext == TwItem \/ TwExhausted \/ TwItemRaises \/ TwReturn

-----------------------------------------------------------------------------
(* fact_checker.py: FactChecker.search_claim *)

\* similarity_threshold: int = 50
DefaultThreshold == 50

\* the score given to every claim when thefuzz is not installed
FallbackScore == 100

\* the texts a claim or a review title can carry; "" is an absent or empty text
CompTexts == {"ta", "tb"}

\* the values token_set_ratio takes here, on its 0..100 scale
Scores == {0, 40, 50, 90}

\* the thresholds search_claim is called with
Thresholds == {0, DefaultThreshold}

\* claimReview entries of a response
Review1 == [url |-> "u1", title |-> "ta", textualRating |-> "False", publisher |-> "p1"]

Review2 == [url |-> "u2", title |-> "", textualRating |-> "Misleading", publisher |-> None]

\* claims of a response: a text (or none) and a list of reviews (or none)
Claims ==
    { [text |-> t, claimReview |-> rs] : t \in CompTexts \cup {""},
                                         rs \in {<<>>, <<Review1>>, <<Review2>>} }
        \cup { [text |-> "tb", claimReview |-> <<Review2, Review1>>] }

\* a claim_text that prefers the title of the first review
ClaimTextTitleFirst(claim) ==
    IF claim.claimReview # <<>> /\ claim.claimReview[1].title # "" THEN claim.claimReview[1].title
    ELSE claim.text

\* claim_text: the claim's text, else the title of its first review
ClaimText(claim) ==
    IF claim.text # "" THEN claim.text
    ELSE IF claim.claimReview # <<>> THEN claim.claimReview[1].title
    ELSE ""

\* fuzz.token_set_ratio(text, claim_text), or 100 without thefuzz
ScoreOf(in, text) == IF in.fuzz THEN in.ratio[text] ELSE FallbackScore

\* the dict built from a review and the score
MatchOf(review, score) ==
    [url |-> review.url, title |-> review.title, textual_rating |-> review.textualRating,
     publisher |-> review.publisher, similarity_score |-> score]

\* a test that forgets the threshold
BetterOnly(score, best_score, threshold) == score > best_score

\* `if score > best_score and score >= similarity_threshold`
Better(score, best_score, threshold) == score > best_score /\ score >= threshold

\* one iteration of `for claim in claims` on the pair (best_match, best_score)
MatchStep(st, claim, in) ==
    LET claim_text == ClaimText(claim)
        score      == ScoreOf(in, claim_text)
    IN  IF claim_text = "" THEN st
        ELSE IF Better(score, st.best_score, in.threshold)
        THEN [best_score |-> score,
              best_match |-> IF claim.claimReview # <<>>
                             THEN <<MatchOf(claim.claimReview[1], score)>>
                             ELSE st.best_match]
        ELSE st

RECURSIVE MatchLoop(_, _, _)
MatchLoop(st, claims, in) ==
    IF claims = <<>> THEN st
    ELSE MatchLoop(MatchStep(st, Head(claims), in), Tail(claims), in)

\* the part of search_claim after data = response.json()
BestMatch(in) ==
    IF in.claims = <<>> THEN <<>>
    ELSE MatchLoop([best_score |-> 0, best_match |-> <<>>], in.claims, in).best_match

\* search_claim: None without a key or when the request fails; response.json() is
\* outside the try block
SearchClaimOutcome(in) ==
    IF ~in.api_key THEN [pc |-> "returned", out |-> <<>>]
    ELSE IF in.http = "error" THEN [pc |-> "returned", out |-> <<>>]
    ELSE IF in.http = "badjson" THEN [pc |-> "raised", out |-> <<>>]
    ELSE [pc |-> "returned", out |-> BestMatch(in)]

SearchClaim ==
    /\ fcPc = "call"
    /\ fcPc' = SearchClaimOutcome(fcIn).pc
    /\ fcOut' = SearchClaimOutcome(fcIn).out
    /\ UNCHANGED fcIn
    /\ UNCHANGED <<dbVars, retryVars, runVars, extractVars, adVars, buildVars, clockVars, itemVars, repVars>>

NoRatio == [t \in CompTexts |-> 0]

\* the calls of search_claim that are checked
MatchInputs ==
    { [api_key |-> TRUE, http |-> "ok", claims |-> cs, ratio |-> r, fuzz |-> TRUE, threshold |-> th] :
          cs \in SeqsUpTo(Claims, MaxClaims), r \in [CompTexts -> Scores], th \in Thresholds }
    \cup
    { [api_key |-> TRUE, http |-> "ok", claims |-> cs, ratio |-> NoRatio, fuzz |-> FALSE, threshold |-> th] :
          cs \in SeqsUpTo(Claims, MaxClaims), th \in Thresholds }
    \cup
    { [api_key |-> k, http |-> h, claims |-> <<>>, ratio |-> NoRatio, fuzz |-> TRUE, threshold |-> DefaultThreshold] :
          k \in BOOLEAN, h \in {"ok", "error", "badjson"} }

MatchInit ==
    /\ fcIn \in MatchInputs
    /\ fcPc = "call"
    /\ fcOut = <<>>

\* search_claim is not in use
MatchIdle ==
    /\ fcIn = [api_key |-> FALSE, http |-> "ok", claims |-> <<>>, ratio |-> NoRatio,
               fuzz |-> TRUE, threshold |-> DefaultThreshold]
    /\ fcPc = "returned"
    /\ fcOut = <<>>

-----------------------------------------------------------------------------
(* social_media_agent.py: Scheduler.extract_claim_keywords *)

(* Texts are sequences of one-character strings. *)
Lowercase == <<"a", "b", "c", "d", "e", "f", "g", "h", "i", "j", "k", "l", "m", "n", "o", "p", "q", "r", "s", "t", "u", "v", "w", "x", "y", "z">>

Uppercase == <<"A", "B", "C", "D", "E", "F", "G", "H", "I", "J", "K", "L", "M", "N", "O", "P", "Q", "R", "S", "T", "U", "V", "W", "X", "Y", "Z">>

Digits == {"0", "1", "2", "3", "4", "5", "6", "7", "8", "9"}

Whitespace == {" ", "\n", "\t"}

Letters == { Lowercase[i] : i \in 1..26 } \cup { Uppercase[i] : i \in 1..26 }

\* the lower-case letter of each upper-case letter
LowerOf == [c \in { Uppercase[i] : i \in 1..26 } |-> Lowercase[CHOOSE i \in 1..26 : Uppercase[i] = c]]

\* re.IGNORECASE compares letters without their case
ToLower(c) == IF c \in DOMAIN LowerOf THEN LowerOf[c] ELSE c

\* the class \w of a regular expression
WordChars == Letters \cup Digits \cup {"_"}

IsWordChar(c) == c \in WordChars

WordCharAt(text, i) == i >= 1 /\ i <= Len(text) /\ IsWordChar(text[i])

\* \b before position i: exactly one of the characters i-1 and i is a word character
WordBoundary(text, i) == WordCharAt(text, i - 1) # WordCharAt(text, i)

\* a comparison that tells upper case from lower case
MatchesAtCase(kw, text, i) ==
    /\ i + Len(kw) - 1 <= Len(text)
    /\ \A j \in 1..Len(kw) : text[i + j - 1] = kw[j]

\* the escaped keyword matches the characters from position i on, case ignored
MatchesAt(kw, text, i) ==
    /\ i + Len(kw) - 1 <= Len(text)
    /\ \A j \in 1..Len(kw) : ToLower(text[i + j - 1]) = ToLower(kw[j])

\* a search without the two \b
SearchAnywhere(kw, text) == \E i \in 1..Len(text) : MatchesAt(kw, text, i)

\* re.search(rf"\b{re.escape(kw)}\b", text, re.IGNORECASE)
SearchWord(kw, text) ==
    \E i \in 1..Len(text) :
        /\ WordBoundary(text, i)
        /\ MatchesAt(kw, text, i)
        /\ WordBoundary(text, i + Len(kw))

\* the list `keywords` of extract_claim_keywords
Vocabulary ==
    << <<"v", "a", "k", "s", "i", "n">>,
       <<"c", "o", "v", "i", "d">>,
       <<"c", "h", "i", "p">>,
       <<"a", "u", "t", "i", "s", "m", "e">>,
       <<"p", "e", "m", "i", "l", "u">>,
       <<"k", "e", "c", "u", "r", "a", "n", "g", "a", "n">>,
       <<"k", "o", "n", "s", "p", "i", "r", "a", "s", "i">>,
       <<"h", "o", "a", "k", "s">>,
       <<"b", "u", "z", "z", "e", "r">>,
       <<"I", "s", "r", "a", "e", "l">>,
       <<"P", "a", "l", "e", "s", "t", "i", "n", "a">> >>

\* " ".join(found)
RECURSIVE JoinSpace(_)
JoinSpace(words) ==
    IF words = <<>> THEN <<>>
    ELSE IF Len(words) = 1 THEN words[1]
    ELSE words[1] \o <<" ">> \o JoinSpace(Tail(words))

ExtractClaimKeywords(text) ==
    LET Found(kw) == SearchWord(kw, text)
    IN  JoinSpace(SelectSeq(Vocabulary, Found))

\* the words and separators the texts of the calls are made of
ExWords ==
    { <<"v", "a", "k", "s", "i", "n">>, <<"V", "a", "k", "s", "i", "n">>,
      <<"h", "o", "a", "k", "s">>, <<"i", "s", "r", "a", "e", "l">>,
      <<"c", "h", "i", "p", "x">> }

ExSeparators == {" ", "-", "_"}

\* the texts of at most n words
RECURSIVE ExTexts(_)
ExTexts(n) ==
    IF n = 0 THEN {<<>>}
    ELSE IF n = 1 THEN {<<>>} \cup ExWords
    ELSE ExTexts(n - 1) \cup
         { t \o <<sep>> \o w : t \in ExTexts(n - 1) \ {<<>>}, sep \in ExSeparators, w \in ExWords }

\* one call of extract_claim_keywords
ExtractCall ==
    /\ exPc = "call"
    /\ exFound' = ExtractClaimKeywords(exText)
    /\ exPc' = "returned"
    /\ UNCHANGED exText
    /\ UNCHANGED <<dbVars, retryVars, matchVars, runVars, adVars, buildVars, clockVars, itemVars, repVars>>

ExtractInit ==
    /\ exText \in ExTexts(MaxWords)
    /\ exPc = "call"
    /\ exFound = <<>>

\* extract_claim_keywords is not in use
ExtractIdle ==
    /\ exText = <<>>
    /\ exPc = "returned"
    /\ exFound = <<>>

\* str.strip()
RECURSIVE Strip(_)
Strip(text) ==
    IF text = <<>> THEN text
    ELSE IF Head(text) \in Whitespace THEN Strip(Tail(text))
    ELSE IF text[Len(text)] \in Whitespace THEN Strip(SubSeq(text, 1, Len(text) - 1))
    ELSE text

-----------------------------------------------------------------------------
(* social_media_agent.py: NewsClassifier.classify, FactChecker.search_claim *)

\* `if label == "hoax" and best["score"] < 0.65`, in hundredths
HoaxMinScore == 65

\* the best entry of the pipeline's output for a text
PipelineOutputs ==
    { [label |-> "LABEL_1", score |-> 90], [label |-> "LABEL_1", score |-> 60],
      [label |-> "LABEL_0", score |-> 80] }

\* self.label_map.get(best['label'], best['label'])
LabelMap(l) == IF l = "LABEL_0" THEN "not_hoax" ELSE IF l = "LABEL_1" THEN "hoax" ELSE l

\* classify(text) for a text that is not blank and the pipeline's best entry
ClassifyResult(best) ==
    LET label == LabelMap(best.label)
    IN  [label |-> IF label = "hoax" /\ best.score < HoaxMinScore THEN "not_hoax" ELSE label,
         score |-> best.score]

\* a test for the empty string only
IsEmpty(text) == text = <<>>

\* `if not text.strip()`
IsBlank(text) == Strip(text) = <<>>

\* the orchestrator's own FactChecker.search_claim: the first review of the first
\* claim of the response, whatever its text; response.json() stands outside the
\* try block and raises on a body that is not JSON
AgentSearchRaises(in) == in.api_key /\ in.http = "badjson"

AgentSearchClaim(in) ==
    IF ~in.api_key THEN <<>>
    ELSE IF in.http = "error" THEN <<>>
    ELSE IF in.claims = <<>> THEN <<>>
    ELSE IF in.claims[1].claimReview = <<>> THEN <<>>
    ELSE LET review == in.claims[1].claimReview[1]
         IN  <<[url |-> review.url, title |-> review.title,
                textual_rating |-> review.textualRating, publisher |-> review.publisher]>>

-----------------------------------------------------------------------------
(* social_media_agent.py: Scheduler.run_job *)

\* an article with neither title nor description
TextEmpty == <<>>

TextBlank == <<" ", " ">>

\* "vaksin" and "chip" occur, neither as a whole word
TextNoTerm == <<"v", "a", "k", "s", "i", "n", "a", "s", "i", " ", "c", "h", "i", "p", "_", "x">>

TextOneTerm == <<"V", "a", "k", "s", "i", "n", "!">>

\* two terms, in the order opposite to the vocabulary's
TextTwoTerms == <<"h", "o", "a", "k", "s", " ", "c", "o", "v", "i", "d">>

KeywordVaksin == <<"v", "a", "k", "s", "i", "n">>

KeywordKonflik == <<"k", "o", "n", "f", "l", "i", "k">>

NewPost(platform, keyword, content, url) ==
    [platform |-> platform, keyword |-> keyword, content |-> content, url |-> url,
     created_at |-> 1, author |-> None,
     predicted_label |-> None, prediction_score |-> NoScore,
     fact_check_url |-> None, fact_check_rating |-> None, fact_check_publisher |-> None]

\* the lists a scraper's fetch() returns
FetchResults(source) ==
    IF source = "google"
    THEN LET g1 == NewPost("google", KeywordVaksin, TextOneTerm, "A")
             g2 == NewPost("google", KeywordKonflik, TextEmpty, "B")
         IN  {<<>>, <<g1>>, <<g2>>, <<g1, g2>>}
    ELSE IF source = "twitter"
    THEN LET t1 == NewPost("twitter", KeywordKonflik, TextNoTerm, "B")
             t2 == NewPost("twitter", KeywordVaksin, TextBlank, "B")
         IN  {<<>>, <<t1>>, <<t2>>}
    ELSE LET r1 == NewPost("reddit", KeywordVaksin, TextTwoTerms, "A")
             r2 == NewPost("reddit", KeywordKonflik, TextNoTerm, "B")
         IN  {<<>>, <<r1>>, <<r2>>, <<r2, r1>>}

\* a review of a response that carries no url: review.get("url") is None
ReviewNoUrl == [url |-> None, title |-> "ta", textualRating |-> "False", publisher |-> "p1"]

\* the responses of the fact-check API to a query, with the similarity of the
\* query to each text
RunFcInputs(api_key) ==
    { [api_key |-> api_key, http |-> "ok", claims |-> cs, ratio |-> r, fuzz |-> TRUE,
       threshold |-> DefaultThreshold] :
          cs \in { <<[text |-> "ta", claimReview |-> <<Review1>>]>>,
                   <<[text |-> "ta", claimReview |-> <<ReviewNoUrl>>]>>,
                   <<[text |-> "tb", claimReview |-> <<>>], [text |-> "ta", claimReview |-> <<Review1>>]>> },
          r \in { [t \in CompTexts |-> 40], [t \in CompTexts |-> 90] } }
    \cup
    { [api_key |-> api_key, http |-> h, claims |-> <<>>, ratio |-> NoRatio, fuzz |-> TRUE,
       threshold |-> DefaultThreshold] : h \in {"ok", "error", "badjson"} }

\* a query that leaves the keyword out when terms were found
ClaimQueryExtractOnly(post) ==
    LET claim_query == Strip(ExtractClaimKeywords(post.content))
    IN  IF claim_query # <<>> THEN claim_query ELSE post.keyword

\* lines 579-587: the query for a post
ClaimQuery(post) ==
    LET claim_query == Strip(ExtractClaimKeywords(post.content))
    IN  IF claim_query # <<>> THEN claim_query \o <<" ">> \o post.keyword ELSE post.keyword

RunJobStart ==
    /\ pc = "idle"
    /\ runs = 0
    /\ runs' = runs + 1
    /\ posts' = <<>>
    /\ idx' = 1
    /\ fetched' = <<>>
    /\ fcCalls' = <<>>
    /\ pc' = "google"
    /\ UNCHANGED <<sched, summary, crash>>
    /\ UNCHANGED <<dbVars, retryVars, matchVars, extractVars, adVars, buildVars, clockVars, itemVars, repVars>>

\* posts.extend(scraper.fetch()) inside try/except: a raising fetch adds nothing
Fetch(source) ==
    \/ \E got \in FetchResults(source) :
          /\ Len(posts) + Len(got) <= MaxPosts
          /\ posts' = posts \o got
          /\ fetched' = Append(fetched, [source |-> source, raised |-> FALSE, got |-> got])
    \/ /\ posts' = posts
       /\ fetched' = Append(fetched, [source |-> source, raised |-> TRUE, got |-> <<>>])

\* `if self.google_scraper is not None:`; the twitter block is nested in it
FetchGoogle ==
    /\ pc = "google"
    /\ IF sched.google
       THEN Fetch("google") /\ pc' = "twitter"
       ELSE UNCHANGED <<posts, fetched>> /\ pc' = "reddit"
    /\ UNCHANGED <<sched, idx, runs, fcCalls, summary, crash>>
    /\ UNCHANGED <<dbVars, retryVars, matchVars, extractVars, adVars, buildVars, clockVars, itemVars, repVars>>

FetchTwitter ==
    /\ pc = "twitter"
    /\ IF sched.twitter
       THEN Fetch("twitter")
       ELSE UNCHANGED <<posts, fetched>>
    /\ pc' = "reddit"
    /\ UNCHANGED <<sched, idx, runs, fcCalls, summary, crash>>
    /\ UNCHANGED <<dbVars, retryVars, matchVars, extractVars, adVars, buildVars, clockVars, itemVars, repVars>>

FetchReddit ==
    /\ pc = "reddit"
    /\ IF sched.reddit
       THEN Fetch("reddit")
       ELSE UNCHANGED <<posts, fetched>>
    /\ pc' = "classify"
    /\ UNCHANGED <<sched, idx, runs, fcCalls, summary, crash>>
    /\ UNCHANGED <<dbVars, retryVars, matchVars, extractVars, adVars, buildVars, clockVars, itemVars, repVars>>

\* the fact-check part of one iteration, for a post labelled hoax
FactCheckPost(post, in) ==
    LET fc_result == AgentSearchClaim(in)
        call == [post |-> idx, query |-> ClaimQuery(post), in |-> in, result |-> fc_result,
                 raised |-> FALSE]
    IN  /\ fcCalls' = Append(fcCalls, call)
        /\ posts' = [posts EXCEPT ![idx] =
                        IF fc_result # <<>>
                        THEN [post EXCEPT !.fact_check_url = fc_result[1].url,
                                          !.fact_check_rating = fc_result[1].textual_rating,
                                          !.fact_check_publisher = fc_result[1].publisher]
                        ELSE post]

\* a test that leaves the label out
ShouldFactCheckAny(post) == sched.fact_check

\* `if self.fact_checker is not None and post.predicted_label == "hoax"`
ShouldFactCheck(post) == sched.fact_check /\ post.predicted_label = "hoax"

\* one iteration of `for post in posts:` for a blank text: classify returns
\* {None, None} and formatting the score with :.2f raises TypeError
ClassifyBlank ==
    /\ pc = "classify"
    /\ idx <= Len(posts)
    /\ IsBlank(posts[idx].content)
    /\ posts' = [posts EXCEPT ![idx].predicted_label = None, ![idx].prediction_score = NoScore]
    /\ pc' = "crashed"
    /\ crash' = "format"
    /\ UNCHANGED <<sched, idx, runs, fetched, fcCalls, summary>>
    /\ UNCHANGED <<dbVars, retryVars, matchVars, extractVars, adVars, buildVars, clockVars, itemVars, repVars>>

\* one iteration in which the pipeline raises: classify has no try block
ClassifyRaises ==
    /\ pc = "classify"
    /\ idx <= Len(posts)
    /\ ~IsBlank(posts[idx].content)
    /\ pc' = "crashed"
    /\ crash' = "classify"
    /\ UNCHANGED <<sched, posts, idx, runs, fetched, fcCalls, summary>>
    /\ UNCHANGED <<dbVars, retryVars, matchVars, extractVars, adVars, buildVars, clockVars, itemVars, repVars>>

\* one iteration of `for post in posts:`: classify, then fact check a hoax
ClassifyPost ==
    /\ pc = "classify"
    /\ idx <= Len(posts)
    /\ ~IsBlank(posts[idx].content)
    /\ \E best \in PipelineOutputs :
          LET result == ClassifyResult(best)
              post == [posts[idx] EXCEPT !.predicted_label = result.label,
                                         !.prediction_score = result.score]
          IN  IF ShouldFactCheck(post)
              THEN \E in \in RunFcInputs(sched.api_key) :
                      ~AgentSearchRaises(in) /\ FactCheckPost(post, in)
              ELSE /\ posts' = [posts EXCEPT ![idx] = post]
                   /\ UNCHANGED fcCalls
    /\ idx' = idx + 1
    /\ UNCHANGED <<sched, pc, runs, fetched, summary, crash>>
    /\ UNCHANGED <<dbVars, retryVars, matchVars, extractVars, adVars, buildVars, clockVars, itemVars, repVars>>

\* one iteration for a post labelled hoax in which search_claim raises: the
\* call in run_job has no try block
ClassifyFactCheckRaises ==
    /\ pc = "classify"
    /\ idx <= Len(posts)
    /\ ~IsBlank(posts[idx].content)
    /\ \E best \in PipelineOutputs, in \in RunFcInputs(sched.api_key) :
          LET result == ClassifyResult(best)
              post == [posts[idx] EXCEPT !.predicted_label = result.label,
                                         !.prediction_score = result.score]
          IN  /\ ShouldFactCheck(post)
              /\ AgentSearchRaises(in)
              /\ posts' = [posts EXCEPT ![idx] = post]
              /\ fcCalls' = Append(fcCalls, [post |-> idx, query |-> ClaimQuery(post), in |-> in,
                                             result |-> <<>>, raised |-> TRUE])
    /\ pc' = "crashed"
    /\ crash' = "search_claim"
    /\ UNCHANGED <<sched, idx, runs, fetched, summary>>
    /\ UNCHANGED <<dbVars, retryVars, matchVars, extractVars, adVars, buildVars, clockVars, itemVars, repVars>>

\* an insert_posts that lets its exception go after the rollback
ReconcilePropagates ==
    /\ pc = "classify"
    /\ idx > Len(posts)
    /\ \E failAt \in 0..(Len(posts) + 1) :
          /\ DoInsertPosts(posts, failAt)
          /\ pc' = IF failAt = 0 THEN "stats" ELSE "crashed"
          /\ crash' = IF failAt = 0 THEN crash ELSE "insert_posts"
    /\ UNCHANGED <<sched, posts, idx, runs, fetched, fcCalls, summary>>
    /\ UNCHANGED <<retryVars, matchVars, extractVars, adVars, buildVars, clockVars, itemVars, repVars>>

\* step 3: self.db.insert_posts(posts)
Reconcile ==
    /\ pc = "classify"
    /\ idx > Len(posts)
    /\ \E failAt \in 0..(Len(posts) + 1) : DoInsertPosts(posts, failAt)
    /\ pc' = "stats"
    /\ UNCHANGED <<sched, posts, idx, runs, fetched, fcCalls, summary, crash>>
    /\ UNCHANGED <<retryVars, matchVars, extractVars, adVars, buildVars, clockVars, itemVars, repVars>>

HoaxPosts == { i \in 1..Len(posts) : posts[i].predicted_label = "hoax" }

\* the statistics of the last log line
Statistics ==
    /\ pc = "stats"
    /\ LET total_hoax == Cardinality(HoaxPosts)
           fact_checked == Cardinality({ i \in HoaxPosts : posts[i].fact_check_url # None })
       IN  summary' = <<total_hoax, fact_checked, total_hoax - fact_checked>>
    /\ pc' = "idle"
    /\ UNCHANGED <<sched, posts, idx, runs, fetched, fcCalls, crash>>
    /\ UNCHANGED <<dbVars, retryVars, matchVars, extractVars, adVars, buildVars, clockVars, itemVars, repVars>>

\* Scheduler.__init__: each scraper is built or left None; fact_check gives a
\* FactChecker, with or without the FACT_CHECK_API_KEY
SchedulerConfigs ==
    { [google |-> g, twitter |-> t, reddit |-> r, fact_check |-> f, api_key |-> k] :
          g \in BOOLEAN, t \in BOOLEAN, r \in BOOLEAN, f \in BOOLEAN, k \in BOOLEAN }

RunStart(c) ==
    /\ sched = c
    /\ pc = "idle"
    /\ posts = <<>>
    /\ idx = 1
    /\ runs = 0
    /\ fetched = <<>>
    /\ fcCalls = <<>>
    /\ summary = <<0, 0, 0>>
    /\ crash = "none"

RunInit == \E c \in { c \in SchedulerConfigs : c.api_key => c.fact_check } : RunStart(c)

\* no Scheduler is in use
RunIdle ==
    RunStart([google |-> FALSE, twitter |-> FALSE, reddit |-> FALSE, fact_check |-> FALSE,
              api_key |-> FALSE])

\* what the constructor is given and finds in the environment
\* the lists in which the names of `names` stand once each, in any order
Listings(names) ==
    { l \in [1..Cardinality(names) -> names] : \A i, j \in DOMAIN l : l[i] = l[j] => i = j }

\* `listed` is the argument `sources` as it was given, `sources` the names that
\* `in self.sources` finds in it
Confs ==
    UNION { { [sources |-> src, listed |-> l, fact_check |-> f, api_key |-> k, snscrape |-> ls,
               praw |-> lp, gnews |-> lg, reddit_id |-> ri, reddit_secret |-> rs,
               reddit_agent |-> ra] :
                  l \in Listings(src), f \in BOOLEAN, k \in BOOLEAN,
                  ls \in BOOLEAN, lp \in BOOLEAN, lg \in BOOLEAN, ri \in BOOLEAN, rs \in BOOLEAN,
                  ra \in {"unset", "empty", "set"} } :
            src \in SUBSET {"google", "twitter", "reddit"} }

\* os.getenv("REDDIT_USER_AGENT", "social_media_agent") is truthy unless the
\* variable is set to the empty string
UserAgentGiven(c) == c.reddit_agent # "empty"

\* RedditScraper.__init__ returns: praw is there and all([...]) holds
RedditBuilds(c) == c.praw /\ c.reddit_id /\ c.reddit_secret /\ UserAgentGiven(c)

\* the scrapers and the fact checker __init__ leaves in self
Built(c) ==
    [google |-> "google" \in c.sources /\ c.gnews,
     twitter |-> "twitter" \in c.sources /\ c.snscrape,
     reddit |-> "reddit" \in c.sources /\ RedditBuilds(c),
     fact_check |-> c.fact_check,
     api_key |-> c.fact_check /\ c.api_key]

\* Scheduler.__init__
SchedulerInit ==
    /\ pc = "new"
    /\ sched' = Built(conf)
    /\ pc' = "idle"
    /\ UNCHANGED <<posts, idx, runs, fetched, fcCalls, summary, crash>>
    /\ UNCHANGED <<dbVars, retryVars, matchVars, extractVars, adVars, buildVars, clockVars, itemVars, repVars>>

NotBuilt ==
    [google |-> FALSE, twitter |-> FALSE, reddit |-> FALSE, fact_check |-> FALSE,
     api_key |-> FALSE]

\* the constructor is about to run
BuildInit ==
    /\ conf \in Confs
    /\ sched = NotBuilt
    /\ pc = "new"
    /\ posts = <<>>
    /\ idx = 1
    /\ runs = 0
    /\ fetched = <<>>
    /\ fcCalls = <<>>
    /\ summary = <<0, 0, 0>>
    /\ crash = "none"

\* no constructor call is modelled
BuildIdle ==
    conf = [sources |-> {}, listed |-> <<>>, fact_check |-> FALSE, api_key |-> FALSE, snscrape |-> FALSE,
            praw |-> FALSE, gnews |-> FALSE, reddit_id |-> FALSE, reddit_secret |-> FALSE,
            reddit_agent |-> "unset"]

\* the constructor, then step 1 of the first run_job
BuildNext == SchedulerInit \/ RunJobStart \/ FetchGoogle \/ FetchTwitter \/ FetchReddit

\* the scheduled time of day, from which tick counts
AtTime == 0

\* Scheduler.start: after the run at startup, `while True:
\* schedule.run_pending()` calls run_job again each day; an exception of
\* run_job leaves start as well
RunPending ==
    /\ pc = "idle"
    /\ runs >= 1
    /\ runs < MaxRuns
    /\ due
    /\ due' = FALSE
    /\ runs' = runs + 1
    /\ posts' = <<>>
    /\ idx' = 1
    /\ fetched' = <<>>
    /\ fcCalls' = <<>>
    /\ pc' = "google"
    /\ UNCHANGED <<sched, summary, crash, tick, stop>>
    /\ UNCHANGED <<dbVars, retryVars, matchVars, extractVars, adVars, buildVars, itemVars, repVars>>

\* an iteration of the loop with nothing pending: time.sleep(60); the job
\* becomes pending when the scheduled time of day comes round
Sleep ==
    /\ pc = "idle"
    /\ runs >= 1
    /\ ~due
    /\ tick' = (tick + 1) % Day
    /\ due' = (tick' = AtTime)
    /\ UNCHANGED stop
    /\ UNCHANGED <<dbVars, retryVars, matchVars, runVars, extractVars, adVars, buildVars, itemVars, repVars>>

\* a stop signal is raised for the process; nothing in start reads one
StopSignal ==
    /\ ~stop
    /\ stop' = TRUE
    /\ UNCHANGED <<tick, due>>
    /\ UNCHANGED <<dbVars, retryVars, matchVars, runVars, extractVars, adVars, buildVars, itemVars, repVars>>

\* start is called at any time of day; schedule.every().day.at(schedule_time)
\* sets next_run to the next time the clock shows schedule_time
ClockInit ==
    /\ tick \in 0..(Day - 1)
    /\ due = FALSE
    /\ stop = FALSE

\* start is not in use
ClockIdle ==
    /\ tick = 0
    /\ due = FALSE
    /\ stop = FALSE

RunNext ==
    \/ RunJobStart
    \/ FetchGoogle
    \/ FetchTwitter
    \/ FetchReddit
    \/ ClassifyBlank
    \/ ClassifyRaises
    \/ ClassifyPost
    \/ ClassifyFactCheckRaises
    \/ Reconcile
    \/ Statistics

-----------------------------------------------------------------------------
(* The specifications, one per component *)

\* Database.insert_posts on batches of any records
InitDb == DbInit /\ RetryIdle /\ MatchIdle /\ RunIdle /\ ExtractIdle /\ AdIdle /\ BuildIdle /\ ClockIdle /\ TwIdle /\ RepIdle

DbNext == InsertPosts

SpecDb == InitDb /\ [][DbNext]_vars

\* one call of a function wrapped by retry_request
InitRetry == RetryInit /\ DbInit /\ MatchIdle /\ RunIdle /\ ExtractIdle /\ AdIdle /\ BuildIdle /\ ClockIdle /\ TwIdle /\ RepIdle

SpecRetry == InitRetry /\ [][RetryNext]_vars

\* one call of fact_checker.FactChecker.search_claim
InitMatch == MatchInit /\ DbInit /\ RetryIdle /\ RunIdle /\ ExtractIdle /\ AdIdle /\ BuildIdle /\ ClockIdle /\ TwIdle /\ RepIdle

MatchNext == SearchClaim

SpecMatch == InitMatch /\ [][MatchNext]_vars

\* one call of fetch() of a scraper
InitFetch == AdInit /\ DbInit /\ RetryIdle /\ MatchIdle /\ RunIdle /\ ExtractIdle /\ BuildIdle /\ ClockIdle /\ TwIdle /\ RepIdle

SpecFetch == InitFetch /\ [][AdNext]_vars

\* one call of extract_claim_keywords
InitExtract == ExtractInit /\ DbInit /\ RetryIdle /\ MatchIdle /\ RunIdle /\ AdIdle /\ BuildIdle /\ ClockIdle /\ TwIdle /\ RepIdle

ExtractNext == ExtractCall

SpecExtract == InitExtract /\ [][ExtractNext]_vars

\* run_job of a Scheduler as __init__ built it, on an empty table
InitRun == RunInit /\ DbInit /\ RetryIdle /\ MatchIdle /\ ExtractIdle /\ AdIdle /\ BuildIdle /\ ClockIdle /\ TwIdle /\ RepIdle

SpecRun == InitRun /\ [][RunNext]_vars

\* the Scheduler the command line builds for its default --source google, with
\* or without --fact-check and the key
StartConfigs ==
    { c \in SchedulerConfigs : c.google /\ ~c.twitter /\ ~c.reddit /\ (c.api_key => c.fact_check) }

StartInit == \E c \in StartConfigs : RunStart(c)

\* Scheduler(...) and the fetching of its first run
InitBuild == BuildInit /\ DbInit /\ RetryIdle /\ MatchIdle /\ ExtractIdle /\ AdIdle /\ ClockIdle /\ TwIdle /\ RepIdle

SpecBuild == InitBuild /\ [][BuildNext]_vars

\* insert_posts called twice with one batch
InitTwice == RepInit /\ RetryIdle /\ MatchIdle /\ RunIdle /\ ExtractIdle /\ AdIdle /\ BuildIdle /\ ClockIdle /\ TwIdle

SpecTwice == InitTwice /\ [][RepNext]_vars

\* TwitterScraper.fetch, tweet by tweet
InitTweets == TwInit /\ DbInit /\ RetryIdle /\ MatchIdle /\ RunIdle /\ ExtractIdle /\ AdIdle /\ BuildIdle /\ ClockIdle /\ RepIdle

SpecTweets == InitTweets /\ [][TwNext]_vars

\* Scheduler.start of that Scheduler (--daily), on an empty table
InitStart == StartInit /\ DbInit /\ RetryIdle /\ MatchIdle /\ ExtractIdle /\ AdIdle /\ BuildIdle /\ ClockInit /\ TwIdle /\ RepIdle

StartNext == RunNext \/ RunPending \/ Sleep \/ StopSignal

SpecStart == InitStart /\ [][StartNext]_vars

\* the loop of start never stops iterating, and a run_job that was called goes on
SpecStartFair == SpecStart /\ WF_vars(StartNext)

-----------------------------------------------------------------------------
(* Claims about Database.insert_posts, checked under SpecDb *)

RowsOf(u) == { i \in 1..Len(storage) : storage[i].url = u }

C2_UniqueUrl ==
    \A i, j \in 1..Len(storage) : storage[i].url = storage[j].url => i = j

\* a url was committed for the first time by a call whose batch held it twice
C2_Witness ==
    \E u \in Urls :
        /\ ingested[u] # <<>>
        /\ ingested[u][1].firstBatch = ingested[u][1].lastBatch
        /\ ingested[u][1].first # ingested[u][1].last
        /\ RowsOf(u) \cap (1..Len(dbLast.before)) = {}
        /\ dbLast.failAt = 0
        /\ ingested[u][1].lastBatch = now - 1

\* C4: when insert_posts fails at any record (or at commit), storage after the
\* call equals storage before the call.
C4_AllOrNothing ==
    dbLast.failAt # 0 => storage = dbLast.before

\* the failure came after earlier records of the batch had inserted or updated rows
C4_Witness ==
    /\ dbLast.failAt >= 2
    /\ dbLast.failAt <= dbLast.len
    /\ dbLast.dirty
    /\ storage # <<>>

\* C37: insert_posts never deletes a row and leaves every row whose url is
\* not in the batch as it was; of a row whose url is in the batch, platform,
\* keyword, url and inserted_at stay as they were.
C37_UpsertFrame ==
    /\ Len(storage) >= Len(dbLast.before)
    /\ \A r \in 1..Len(dbLast.before) :
          LET old == dbLast.before[r]
              row == storage[r]
          IN  /\ row.url = old.url
              /\ row.platform = old.platform
              /\ row.keyword = old.keyword
              /\ row.inserted_at = old.inserted_at
              /\ old.url \notin dbLast.urls => row = old

\* the table held rows for both urls; the second call committed a batch with
\* one of the urls only, under another platform and keyword and with other
\* enrichment fields: that row has the new enrichment, the old platform,
\* keyword and inserted_at, and the other row is as it was
C37_Witness ==
    /\ now = 2
    /\ dbLast.failAt = 0
    /\ Len(dbLast.before) = 2
    /\ dbLast.urls = {"A"}
    /\ \E r \in 1..2 :
          /\ storage[r].url = "A"
          /\ EnrichmentOf(storage[r]) # EnrichmentOf(dbLast.before[r])
          /\ ingested["A"][1].last.platform # storage[r].platform
          /\ storage[r].inserted_at = 0
    /\ \E r \in 1..2 : storage[r].url = "B" /\ storage[r] = dbLast.before[r]

\* two tables with the same rows but for inserted_at
SameButStamps(t1, t2) ==
    /\ Len(t1) = Len(t2)
    /\ \A r \in 1..Len(t1) :
          /\ t1[r].url = t2[r].url
          /\ CaptureOf(t1[r]) = CaptureOf(t2[r])
          /\ EnrichmentOf(t1[r]) = EnrichmentOf(t2[r])

\* C38: insert_posts called twice in succession with the same batch leaves the
\* table with the same urls and the same capture and enrichment fields as the
\* first call did (inserted_at aside).
C38_UpsertIdempotent == rep.pc = "again" => SameButStamps(storage, rep.once)

\* a batch that holds a new url twice, with different enrichment fields, was
\* committed twice on a table with one row
C38_Witness ==
    /\ rep.pc = "again"
    /\ dbLast.failAt = 0
    /\ Len(rep.batch) = 2
    /\ rep.batch[1].url = rep.batch[2].url
    /\ EnrichmentOf(rep.batch[1]) # EnrichmentOf(rep.batch[2])
    /\ Len(storage) = 2
    /\ storage[1].url # rep.batch[1].url
    /\ storage[2].inserted_at = 1

-----------------------------------------------------------------------------
(* Claims about retry_request, checked under SpecRetry *)

\* C3: for every maximum attempt count N >= 1, the wrapper around an operation
\* that fails on every call invokes it exactly N times and then returns an
\* empty list; the wrapper returns, no exception leaves it.
C3_AlwaysFailing ==
    Count(rLog, "ok") = 0 =>
        /\ Count(rLog, "call") <= max_retries
        /\ rPc = "returned" => (Count(rLog, "call") = max_retries /\ rResult = "[]")

\* the wrapper has returned after three failed calls with N = 3
C3_Witness ==
    /\ max_retries = 3
    /\ rPc = "returned"
    /\ Count(rLog, "ok") = 0
    /\ Count(rLog, "call") = 3
    /\ rResult = "[]"

\* C27: when the wrapped function first returns on its k-th call, 1 <= k <= N,
\* the wrapper has called it exactly k times, returns the value of that call
\* unchanged, and neither calls nor sleeps after it.
C27_SuccessOnKth ==
    /\ Count(rLog, "ok") <= 1
    /\ Count(rLog, "ok") = 1 =>
          LET k == Count(rLog, "call")
          IN  /\ rPc = "returned"
              /\ 1 <= k /\ k <= max_retries
              /\ Count(rLog, "raise") = k - 1
              /\ Len(rLog) = 3 * k
              /\ SubSeq(rLog, 3 * k - 2, 3 * k - 1) = <<"call", "ok">>
              /\ rResult = rLog[3 * k]

\* with N = 3 the third call returned None, and so did the wrapper
C27_Witness ==
    /\ max_retries = 3
    /\ rPc = "returned"
    /\ rLog = <<"call", "raise", "sleep", "call", "raise", "sleep", "call", "ok", "None">>
    /\ rResult = "None"

\* C28: the delay is a delay between attempts: every sleep is followed by
\* another call, so that a function failing on all N calls costs exactly
\* N - 1 sleeps, none after the last call.
C28_InterAttemptDelay ==
    rPc = "returned" =>
        /\ \A i \in 1..Len(rLog) :
              rLog[i] = "sleep" => \E j \in (i + 1)..Len(rLog) : rLog[j] = "call"
        /\ Count(rLog, "ok") = 0 => Count(rLog, "sleep") = max_retries - 1

-----------------------------------------------------------------------------
(* Claims about the scrapers' fetch, checked under SpecFetch *)

\* the entries of the history of one kind for keyword k
Events(e, k) == { j \in 1..Len(adLog) : adLog[j].e = e /\ adLog[j].kw = k }

\* the number of times <<k, i>> stands in the list
Copies(k, i) == Cardinality({ j \in 1..Len(adOut) : adOut[j] = <<k, i>> })

Exhausted(k) == (adKw > k \/ adPc = "raised") /\ Events("call", k) # {} /\ Events("ok", k) = {}

\* C22: in each of the three kinds of scraper, those the orchestrator builds
\* included, a failing per-keyword fetch is attempted again under
\* retry_request up to its maximum, and there is a pause between the
\* processing of two consecutive keywords.
C22_RetryAndPauseEverywhere ==
    /\ \A k \in 1..MaxKeywords :
          Exhausted(k) => Cardinality(Events("call", k)) = AdapterMaxRetries
    /\ \A k \in 1..(MaxKeywords - 1) :
          Events("call", k + 1) # {} => Events("pause", k) # {}

\* C29: when a per-keyword fetch fails partway through its items and is
\* attempted again, the list holds each item of the keyword at most once: the
\* records of the failed attempt do not stay beside those of a later attempt.
C29_NoDuplicateAfterRetry ==
    \A k \in 1..MaxKeywords : \A i \in 1..MaxItems : Copies(k, i) <= 1

-----------------------------------------------------------------------------
(* Claims about the tweets of TwitterScraper.fetch, checked under SpecTweets *)

\* the number of records of keyword k in the list
RecordsOf(k) == Cardinality({ j \in 1..Len(twOut) : twOut[j][1] = k })

\* C34: for every keyword, fetch adds at most max_tweets records to its list
\* and takes no further tweet from the search once that many were taken,
\* however many the search could yield.
C34_CapPerKeyword ==
    \A k \in 1..MaxKeywords :
        /\ RecordsOf(k) <= max_tweets
        /\ twTaken[k] <= max_tweets

-----------------------------------------------------------------------------
(* Claims about FactChecker.search_claim, checked under SpecMatch *)

\* the call reached the loop over the claims of the response
Matched == fcPc = "returned" /\ fcIn.api_key /\ fcIn.http = "ok"

\* the candidates that have comparison text, and their scores
Scored == { i \in 1..Len(fcIn.claims) : ClaimText(fcIn.claims[i]) # "" }

SimilarityOf(i) == ScoreOf(fcIn, ClaimText(fcIn.claims[i]))

\* the candidates with the highest score
Top == { i \in Scored : \A j \in Scored : SimilarityOf(j) <= SimilarityOf(i) }

\* the first review of candidate i with its score, or none when it has no review
ReviewOf(i) ==
    IF fcIn.claims[i].claimReview # <<>>
    THEN <<MatchOf(fcIn.claims[i].claimReview[1], SimilarityOf(i))>>
    ELSE <<>>

\* C5: when exactly one candidate has the maximum similarity score and that
\* score is >= similarity_threshold, search_claim returns that candidate's
\* review, wherever the candidate stands in the list.
C5_UniqueMaxReturned ==
    (Matched /\ Cardinality(Top) = 1) =>
        \A i \in Top : SimilarityOf(i) >= fcIn.threshold => fcOut = ReviewOf(i)

\* C6: when several candidates share the maximum similarity score (>=
\* similarity_threshold), search_claim returns the one that comes first in the
\* candidate list.
C6_FirstOfTiedReturned ==
    (Matched /\ Cardinality(Top) >= 2) =>
        \A i \in Top :
            (SimilarityOf(i) >= fcIn.threshold /\ \A j \in Top : i <= j) => fcOut = ReviewOf(i)

\* C7: search_claim returns none whenever no candidate's similarity score
\* reaches similarity_threshold; every review it returns carries a
\* similarity_score >= similarity_threshold.
C7_ThresholdRespected ==
    fcPc = "returned" =>
        /\ (\A i \in Scored : SimilarityOf(i) < fcIn.threshold) => fcOut = <<>>
        /\ fcOut # <<>> => fcOut[1].similarity_score >= fcIn.threshold

\* a call whose candidates all have a review and a positive score below the
\* threshold, and which returned none
C7_Witness ==
    /\ Matched
    /\ Len(fcIn.claims) >= 2
    /\ Scored = 1..Len(fcIn.claims)
    /\ \A i \in Scored :
          /\ SimilarityOf(i) > 0
          /\ SimilarityOf(i) < fcIn.threshold
          /\ fcIn.claims[i].claimReview # <<>>
    /\ fcOut = <<>>

\* C8: whenever search_claim returns a review, it is the first review of the
\* claim with the highest similarity score among the candidates that have
\* comparison text, and the returned similarity_score is that highest score.
C8_ReturnsArgmax ==
    (Matched /\ fcOut # <<>>) =>
        \E i \in Top : fcIn.claims[i].claimReview # <<>> /\ fcOut = ReviewOf(i)

\* C32: a candidate whose score equals similarity_threshold is eligible: a
\* response of one claim with comparison text and one review, whose score is
\* the threshold, makes search_claim return that review, for the threshold 0
\* with the score 0 as for any other.
C32_ThresholdIsEligible ==
    (/\ Matched
     /\ Len(fcIn.claims) = 1
     /\ Scored = {1}
     /\ Len(fcIn.claims[1].claimReview) = 1
     /\ SimilarityOf(1) = fcIn.threshold) => fcOut = ReviewOf(1)

\* the text a candidate is compared by: its own text when it is not empty,
\* else the title of its first review, else none
Comparison(claim) ==
    IF claim.text # "" THEN claim.text
    ELSE IF Len(claim.claimReview) >= 1 THEN claim.claimReview[1].title
    ELSE ""

HasComparison(claim) == Comparison(claim) # ""

\* C33: each candidate is scored on its own text when that is not empty and
\* else on the title of its first review; a candidate with neither is skipped:
\* it is never returned, and the result is the one of the same call without
\* such candidates.
C33_ComparisonText ==
    Matched =>
        /\ fcOut # <<>> =>
              \E i \in 1..Len(fcIn.claims) :
                  /\ HasComparison(fcIn.claims[i])
                  /\ fcIn.claims[i].claimReview # <<>>
                  /\ fcOut = <<MatchOf(fcIn.claims[i].claimReview[1],
                                       ScoreOf(fcIn, Comparison(fcIn.claims[i])))>>
        /\ fcOut = BestMatch([fcIn EXCEPT !.claims = SelectSeq(fcIn.claims, HasComparison)])

\* of two candidates the first has no text and a review without title, the
\* second has a text that scores below the threshold and a review whose title
\* scores above it: none is returned
C33_Witness ==
    /\ Matched
    /\ fcIn.fuzz
    /\ Len(fcIn.claims) = 2
    /\ fcIn.claims[1] = [text |-> "", claimReview |-> <<Review2>>]
    /\ fcIn.claims[2] = [text |-> "tb", claimReview |-> <<Review1>>]
    /\ fcIn.ratio["tb"] < fcIn.threshold
    /\ fcIn.ratio["ta"] > fcIn.threshold
    /\ fcOut = <<>>

-----------------------------------------------------------------------------
(* Claims about Scheduler.run_job, checked under SpecRun *)

\* the candidates of a response that have comparison text and reach the threshold
Eligible(in) ==
    { i \in 1..Len(in.claims) :
        /\ ClaimText(in.claims[i]) # ""
        /\ ScoreOf(in, ClaimText(in.claims[i])) >= in.threshold }

NoFactCheck(post) ==
    /\ post.fact_check_url = None
    /\ post.fact_check_rating = None
    /\ post.fact_check_publisher = None

\* C9: fact-check fields are copied onto a hoax record only from the first
\* review of a candidate whose similarity to the query is >=
\* similarity_threshold; a response whose candidates all score below the
\* threshold leaves the record's fact-check fields null.
C9_OnlyMatchedReviews ==
    \A k \in 1..Len(fcCalls) :
        LET in == fcCalls[k].in
            post == posts[fcCalls[k].post]
        IN  \/ NoFactCheck(post)
            \/ \E i \in Eligible(in) :
                  /\ in.claims[i].claimReview # <<>>
                  /\ post.fact_check_url = in.claims[i].claimReview[1].url
                  /\ post.fact_check_rating = in.claims[i].claimReview[1].textualRating
                  /\ post.fact_check_publisher = in.claims[i].claimReview[1].publisher

\* a text in lower case
RECURSIVE LowerText(_)
LowerText(text) ==
    IF text = <<>> THEN <<>> ELSE <<ToLower(Head(text))>> \o LowerText(Tail(text))

\* the text has a maximal run of word characters that is kw, whatever the case
HasWholeWord(text, kw) ==
    \E i \in 1..Len(text) :
        LET j == i + Len(kw) - 1
        IN  /\ j <= Len(text)
            /\ ~WordCharAt(text, i - 1)
            /\ ~WordCharAt(text, j + 1)
            /\ \A m \in i..j : IsWordChar(text[m])
            /\ LowerText(SubSeq(text, i, j)) = LowerText(kw)

\* no term of the vocabulary is one of the text's words
NoVocabularyWord(text) ==
    \A n \in 1..Len(Vocabulary) : ~HasWholeWord(text, Vocabulary[n])

\* C10: for a text that contains none of the vocabulary terms as a whole word,
\* extract_claim_keywords returns the empty string, and the query run_job sends
\* to search_claim is exactly the record's originating keyword.
C10_KeywordFallback ==
    /\ \A i \in 1..Len(posts) :
          NoVocabularyWord(posts[i].content) => ExtractClaimKeywords(posts[i].content) = <<>>
    /\ \A k \in 1..Len(fcCalls) :
          NoVocabularyWord(posts[fcCalls[k].post].content) =>
              fcCalls[k].query = posts[fcCalls[k].post].keyword

\* search_claim was called for a text in which vocabulary terms occur, none of
\* them as a whole word
C10_Witness ==
    \E k \in 1..Len(fcCalls) :
        LET post == posts[fcCalls[k].post]
        IN  /\ NoVocabularyWord(post.content)
            /\ \E n \in 1..Len(Vocabulary) : SearchAnywhere(Vocabulary[n], post.content)
            /\ fcCalls[k].query = post.keyword
            /\ post.predicted_label = "hoax"

\* the text has no character other than white space
AllWhitespace(text) == \A j \in 1..Len(text) : text[j] \in Whitespace

\* C12: a record whose content is blank or only white space is classified as
\* {label: None, score: None}, and search_claim is never called for it.
C12_BlankNotChecked ==
    /\ \A i \in 1..Len(posts) :
          AllWhitespace(posts[i].content) =>
              posts[i].predicted_label = None /\ posts[i].prediction_score = NoScore
    /\ \A k \in 1..Len(fcCalls) : ~AllWhitespace(posts[fcCalls[k].post].content)

\* the loop has classified a record of white space, after a hoax record for
\* which search_claim was called
C12_Witness ==
    /\ pc = "crashed"
    /\ idx = 2
    /\ Len(posts) = 2
    /\ posts[2].content = TextBlank
    /\ posts[1].predicted_label = "hoax"
    /\ Len(fcCalls) = 1

\* run_job has returned or an exception has left it
RunOver == runs >= 1 /\ pc \in {"idle", "crashed"}

DistinctUrls == \A i, j \in 1..Len(posts) : posts[i].url = posts[j].url => i = j

\* search_claim returned a review for record i
ReviewReturned(i) == \E k \in 1..Len(fcCalls) : fcCalls[k].post = i /\ fcCalls[k].result # <<>>

\* C13: after one run_job over records with pairwise distinct urls and an
\* empty table before it (and no storage failure), the table holds exactly one
\* row per record; a row has a fact_check_url exactly when its record was
\* labelled hoax and search_claim returned a review for it, and every row
\* labelled not_hoax has its three fact-check fields null.
C13_OneRowPerRecord ==
    (RunOver /\ DistinctUrls /\ dbLast.failAt = 0) =>
        /\ Len(storage) = Len(posts)
        /\ \A i \in 1..Len(posts) :
              /\ Cardinality(RowsOf(posts[i].url)) = 1
              /\ \A r \in RowsOf(posts[i].url) :
                    /\ storage[r].fact_check_url # None
                          <=> (posts[i].predicted_label = "hoax" /\ ReviewReturned(i))
                    /\ storage[r].predicted_label = "not_hoax" => NoFactCheck(storage[r])

\* step 1 of run_job is over
FetchingDone == runs >= 1 /\ pc \notin {"google", "twitter", "reddit"}

\* the number of fetch() calls this run made to a scraper
Calls(source) == Cardinality({ k \in 1..Len(fetched) : fetched[k].source = source })

\* the order of the three blocks of step 1
SourceOrder == <<"google", "twitter", "reddit">>

\* C15: in every run, each enabled scraper (asked for in `sources` and built by
\* __init__) has its fetch called exactly once, whichever other sources are
\* enabled or disabled.
C15_EachEnabledOnce ==
    FetchingDone =>
        \A n \in 1..Len(SourceOrder) : sched[SourceOrder[n]] => Calls(SourceOrder[n]) = 1

\* a record as the scraper returned it
Raw(post) == NewPost(post.platform, post.keyword, post.content, post.url)

\* the lists the fetch calls returned, one after the other
RECURSIVE Gathered(_)
Gathered(calls) ==
    IF calls = <<>> THEN <<>> ELSE Head(calls).got \o Gathered(Tail(calls))

\* C16: when the fetch of one scraper raises in step 1, the run still calls the
\* fetch of every enabled scraper that comes after it, and goes on to step 2
\* and to insert_posts with the records the other scrapers returned.
C16_FetchFailureContained ==
    FetchingDone =>
        /\ \A k \in 1..Len(fetched) :
              fetched[k].raised =>
                  \A n \in 1..Len(SourceOrder) :
                      (\E m \in 1..(n - 1) : SourceOrder[m] = fetched[k].source)
                          => (sched[SourceOrder[n]] => Calls(SourceOrder[n]) = 1)
        /\ [i \in 1..Len(posts) |-> Raw(posts[i])] = Gathered(fetched)
        /\ pc \in {"stats", "idle"} => dbLast.len = Len(posts)
        /\ (\E k \in 1..Len(fetched) : fetched[k].raised) => pc # "crashed"

\* C17: when the classifier call raises for one record in step 2, the run
\* treats the record as having no result, still classifies every remaining
\* record and still reaches insert_posts with the whole list: no exception of
\* classify leaves run_job.
C17_ClassifierFailureContained == crash # "classify"

\* C18: a run whose list holds a record for which classify returns {label:
\* None, score: None} (blank content) still completes: every record, that one
\* included, is handed to insert_posts and the statistics are logged.
C18_BlankRecordCompletes == crash # "format"

\* C19: search_claim returns None without raising when the api key is absent
\* and on any failure of the request or of reading its response; a fact-check
\* failure for one record never keeps the remaining records from being
\* classified nor the batch from reaching insert_posts.
C19_FactCheckFailureContained ==
    /\ \A k \in 1..Len(fcCalls) :
          /\ ~fcCalls[k].raised
          /\ (~fcCalls[k].in.api_key \/ fcCalls[k].in.http # "ok") => fcCalls[k].result = <<>>
    /\ crash # "search_claim"

-----------------------------------------------------------------------------
(* Claims about Scheduler.__init__, checked under SpecBuild *)

\* one of the three reddit credentials is given neither by argument nor by the
\* environment (the Scheduler passes none by argument)
RedditCredentialMissing ==
    ~conf.reddit_id \/ ~conf.reddit_secret \/ conf.reddit_agent = "unset"

\* the sources other than reddit that were asked for and can be built
OtherSources ==
    { src \in {"google", "twitter"} :
        /\ src \in conf.sources
        /\ (src = "google" => conf.gnews)
        /\ (src = "twitter" => conf.snscrape) }

\* C23: building the reddit scraper fails whenever one of its three
\* credentials (client id, client secret, user agent) is supplied neither by
\* argument nor by the environment; the Scheduler then leaves reddit disabled
\* for its runs while the other configured sources are still built and fetched.
C23_RedditFailsFast ==
    ("reddit" \in conf.sources /\ RedditCredentialMissing /\ pc # "new") =>
        /\ ~sched.reddit
        /\ \A src \in OtherSources : sched[src]
        /\ FetchingDone => (Calls("reddit") = 0 /\ \A src \in OtherSources : Calls(src) = 1)

\* the place of a source in the list `sources` as it was given
Listed(source) == CHOOSE n \in DOMAIN conf.listed : conf.listed[n] = source

\* C36: the list of a run is the concatenation of what the enabled scrapers
\* returned, in the order in which the sources stand in the configuration:
\* with sources [reddit, google] every reddit record comes before every
\* google record.
C36_ConfiguredOrder ==
    (pc # "new" /\ FetchingDone) =>
        /\ [i \in 1..Len(posts) |-> Raw(posts[i])] = Gathered(fetched)
        /\ \A i, j \in 1..Len(posts) :
              i < j => Listed(posts[i].platform) <= Listed(posts[j].platform)

-----------------------------------------------------------------------------
(* Claims about Scheduler.start, checked under SpecStart and SpecStartFair *)

\* the last insert_posts call failed
StorageFailed == runs >= 1 /\ dbLast.failAt # 0

C20_StorageFailureContained ==
    /\ [](StorageFailed => (storage = dbLast.before /\ crash # "insert_posts"))
    /\ \A n \in 1..(MaxRuns - 1) : (StorageFailed /\ pc = "stats" /\ runs = n) ~> (runs = n + 1)

\* the first run failed in insert_posts after it had inserted a row, and the
\* second run has started
C20_Witness ==
    /\ runs = 2
    /\ dbLast.failAt >= 2
    /\ dbLast.dirty
    /\ dbLast.before = <<>>
    /\ storage = <<>>
    /\ pc = "google"

\* the record of the k-th search_claim call and what extract_claim_keywords
\* returns for its content
Checked(k) == posts[fcCalls[k].post]

Extracted(k) == ExtractClaimKeywords(Checked(k).content)

\* C30 as stated: when extract_claim_keywords returns a non-empty string for a
\* hoax record, the query given to search_claim is exactly that string; the
\* record's keyword is the query only when the empty string was returned.
C30_QueryIsExtract ==
    \A k \in 1..Len(fcCalls) :
        /\ Extracted(k) # <<>> => fcCalls[k].query = Extracted(k)
        /\ Extracted(k) = <<>> => fcCalls[k].query = Checked(k).keyword

\* C30 amended: when extract_claim_keywords returns a non-empty string for a
\* hoax record, the query given to search_claim is that string followed by a
\* space and the record's keyword; the keyword alone is the query only when
\* the empty string was returned.
C30_QueryIsExtractAndKeyword ==
    \A k \in 1..Len(fcCalls) :
        /\ Extracted(k) # <<>> =>
              fcCalls[k].query = Extracted(k) \o <<" ">> \o Checked(k).keyword
        /\ Extracted(k) = <<>> => fcCalls[k].query = Checked(k).keyword

\* search_claim was called for a hoax record in whose text two terms were
\* found, with a query ending in the record's keyword
C30_Witness ==
    \E k \in 1..Len(fcCalls) :
        /\ Checked(k).predicted_label = "hoax"
        /\ Checked(k).content = TextTwoTerms
        /\ Extracted(k) # <<>>
        /\ fcCalls[k].query = Extracted(k) \o <<" ">> \o KeywordVaksin

\* C31: in a run search_claim is called for a record only if fact checking is
\* enabled and the record's predicted_label is hoax, at most once for each
\* such record, and after the record was classified.
C31_FactCheckOnlyHoaxOnce ==
    \A k \in 1..Len(fcCalls) :
        LET i == fcCalls[k].post
        IN  /\ sched.fact_check
            /\ i \in 1..Len(posts)
            /\ posts[i].predicted_label = "hoax"
            /\ posts[i].prediction_score >= HoaxMinScore
            /\ i < idx \/ (i = idx /\ crash = "search_claim")
            /\ \A l \in 1..Len(fcCalls) : fcCalls[l].post = i => l = k

\* a run over two records is through step 2: search_claim was called once, for
\* the second record, which is hoax, and not for the first, which is not
C31_Witness ==
    /\ pc = "stats"
    /\ Len(posts) = 2
    /\ posts[1].predicted_label = "not_hoax"
    /\ posts[2].predicted_label = "hoax"
    /\ Len(fcCalls) = 1
    /\ fcCalls[1].post = 2

\* the hoax records for which search_claim returned a review, or none
HoaxWithReview == { i \in HoaxPosts : ReviewReturned(i) }

HoaxWithoutReview == { i \in HoaxPosts : ~ReviewReturned(i) }

\* C35: in the summary of a run the fact-checked count is the number of hoax
\* records for which search_claim returned a review, the not-found count is
\* the number of hoax records for which it returned none, and the two add up
\* to the hoax count.
C35_SummaryCounts ==
    (pc = "idle" /\ runs >= 1) =>
        /\ summary[1] = Cardinality(HoaxPosts)
        /\ summary[2] = Cardinality(HoaxWithReview)
        /\ summary[3] = Cardinality(HoaxWithoutReview)
        /\ summary[2] + summary[3] = summary[1]

-----------------------------------------------------------------------------
(* Claims about Scheduler.extract_claim_keywords, checked under SpecExtract *)

\* the pieces of a string between its spaces; none for the empty string
RECURSIVE SplitSpace(_, _)
SplitSpace(s, piece) ==
    IF s = <<>> THEN <<piece>>
    ELSE IF Head(s) = " " THEN <<piece>> \o SplitSpace(Tail(s), <<>>)
    ELSE SplitSpace(Tail(s), Append(piece, Head(s)))

Terms(s) == IF s = <<>> THEN <<>> ELSE SplitSpace(s, <<>>)

\* C11: extract_claim_keywords returns exactly the vocabulary terms that occur
\* in the text as whole words, case ignored, each at most once, joined by
\* single spaces in the order of the vocabulary, whatever the order and the
\* number of their occurrences in the text.
C11_VocabularyOrder ==
    exPc = "returned" =>
        LET terms == Terms(exFound)
            At(k) == CHOOSE n \in 1..Len(Vocabulary) : Vocabulary[n] = terms[k]
        IN  /\ \A k \in 1..Len(terms) : \E n \in 1..Len(Vocabulary) : Vocabulary[n] = terms[k]
            /\ \A k, l \in 1..Len(terms) : k < l => At(k) < At(l)
            /\ \A n \in 1..Len(Vocabulary) :
                  (\E k \in 1..Len(terms) : terms[k] = Vocabulary[n])
                      <=> HasWholeWord(exText, Vocabulary[n])

\* the text "hoaks Vaksin-vaksin" gave "vaksin hoaks"
C11_Witness ==
    /\ exPc = "returned"
    /\ exText = Vocabulary[8] \o <<" ", "V">> \o Tail(Vocabulary[1]) \o <<"-">> \o Vocabulary[1]
    /\ exFound = Vocabulary[1] \o <<" ">> \o Vocabulary[8]

-----------------------------------------------------------------------------
(* Claims about Scheduler.start, checked under SpecStart and SpecStartFair *)

\* C24: after start there is a run at once and then one run each day at the
\* scheduled time: a run begins only when none is active, at startup or when
\* the clock shows the scheduled time, and every run is followed by the next
\* one (up to the MaxRuns runs that are followed).
C24_DailyRuns ==
    /\ [][runs' # runs => (pc = "idle" /\ (runs = 0 \/ tick = AtTime))]_vars
    /\ \A n \in 0..(MaxRuns - 1) : (runs = n) ~> (runs = n + 1)

RunSteps ==
    { <<"idle", "google">>, <<"google", "twitter">>, <<"google", "reddit">>,
      <<"twitter", "reddit">>, <<"reddit", "classify">>, <<"classify", "stats">>,
      <<"stats", "idle">> }

\* C26: every run goes through idle, fetching, classifying, reconciling, idle
\* in this order; no record is classified while sources are still being
\* fetched; insert_posts is called exactly once in each run, with the whole
\* list and only after the loop of step 2 is through every record.
C26_RunOrder ==
    /\ [][pc' # pc => <<pc, pc'>> \in RunSteps]_vars
    /\ [](pc \in {"google", "twitter", "reddit"} =>
              \A i \in 1..Len(posts) : posts[i] = Raw(posts[i]))
    /\ [][now' # now => (/\ pc = "classify"
                         /\ idx > Len(posts)
                         /\ now' = now + 1
                         /\ dbLast'.len = Len(posts))]_vars
    /\ [](RunOver => now = runs)

=============================================================================
